---- MODULE Spec2Model ----
(***************************************************************************)
(* Model of the keyword-driven news report pipeline                        *)
(* (src/core_functions.py: load_keywords, crawl_news, analyze_risk,        *)
(* summarize_news, send_email, execute).                                   *)
(*                                                                         *)
(* Text is modelled as a sequence of characters.  The source's Hangul      *)
(* syllables are written with ASCII names, one name per syllable:          *)
(*   sa mang chim ip hae king jung dae pok bal jae nan      (RED words)    *)
(*   sa go non ran jang ae wi heom yu chul hwa jae          (AMBER words)  *)
(* " " is U+0020 and "\t" is U+0009.                                       *)
(***************************************************************************)
EXTENDS Integers, Sequences, FiniteSets, TLC

VARIABLES
    pc,             \* position of execute(): idle, items, dashboard, pdf, mail, done, aborted
    store,          \* the keyword file DATA_FILE: "missing", "corrupt" or a list of keywords
    api_key,        \* os.getenv("OPENAI_API_KEY") is set
    keywords,       \* execute: keywords
    ki,             \* execute: position of `for keyword in keywords` (1-based)
    news_items,     \* execute: news_items of the current keyword
    ii,             \* execute: position of `for item in news_items` (1-based)
    risk,           \* execute: risk of the item classified last
    all_news_data,  \* execute: all_news_data
    summary_map,    \* execute: summary_map, a dict kept as a sequence of pairs in insertion order
    feed,           \* crawl_news: feed, what feedparser.parse gave for the current keyword
    crawled,        \* the value crawl_news returned in each iteration so far
    calls,          \* the external calls made so far, in order
    index_html,     \* the versions of index.html written by generate_dashboard, the last on disk
    pdf_path,       \* execute: pdf_path, "none" for None
    smtp_env,       \* SMTP_USER and SMTP_PASSWORD as send_email read them
    now,            \* datetime.now(), a clock
    revision,       \* the entry script in use: "main.py", or its earlier copy in "config.py"
    github_actions, \* os.environ.get("GITHUB_ACTIONS") == "true"
    exit_status,    \* exit status of the process, -1 while it runs
    listbox,        \* App.list, the keywords the window shows
    dialog,         \* the messagebox shown last, "none" if none
    event,          \* the App handler that ran last, with its inputs and the list it loaded
    ops,            \* number of App handlers run so far
    prs,            \* make_ppt: the slides of the Presentation being built
    ppt_file        \* the deck saved at path, <<>> if none

\* the state of a run of execute
exec_vars == <<pc, store, api_key, keywords, ki, news_items, ii, risk, all_news_data,
               summary_map, feed, crawled, calls, index_html, pdf_path, smtp_env>>

\* the state of the process and of the keyword window
app_vars == <<revision, github_actions, exit_status, listbox, dialog, event, ops>>

\* the state of make_ppt
ppt_vars == <<prs, ppt_file>>

vars == <<exec_vars, app_vars, ppt_vars, now>>

----------------------------------------------------------------------------
(* Bounds of the model *)

\* longest title drawn for the classifier
MaxTitleLen == 4

\* config.MAX_NEWS_ENTRIES is 100; the model runs the same slice with a small
\* limit so that feeds longer than the limit are enumerated
MAX_NEWS_ENTRIES == 2

\* feeds are one entry longer than the limit
MaxFeedLen == MAX_NEWS_ENTRIES + 1

\* core_functions.py:80, news_items[:10]: 10 of at most 100 items; the model
\* runs the same slice with a limit below MAX_NEWS_ENTRIES so that collections
\* longer than the limit are summarized
SUMMARY_TITLES == 1

----------------------------------------------------------------------------
(* Sequences *)

Take(s, n) == SubSeq(s, 1, IF Len(s) < n THEN Len(s) ELSE n)

SeqsUpTo(S, n) == UNION {[1..m -> S] : m \in 0..n}

\* Python `w in s` for strings: w is a contiguous part of s
Contains(w, s) ==
    \E b \in 0..(Len(s) - Len(w)) : \A j \in 1..Len(w) : s[b + j] = w[j]

\* Python s.replace(c, "") for a one-character c
Replace(s, c) == SelectSeq(s, LAMBDA x : x # c)

----------------------------------------------------------------------------
(* config.py *)

RISK_KEYWORDS ==
    [RED   |-> << <<"sa", "mang">>, <<"chim", "ip">>, <<"hae", "king">>,
                  <<"jung", "dae">>, <<"pok", "bal">>, <<"jae", "nan">> >>,
     AMBER |-> << <<"sa", "go">>, <<"non", "ran">>, <<"jang", "ae">>,
                  <<"wi", "heom">>, <<"yu", "chul">>, <<"hwa", "jae">> >>]

\* the keyword of the exclusion rule, "KT telecop" (core_functions.py:736)
KT_TELECOP == "KT-telecop"

\* the keywords a store holds in the model: INITIAL_KEYWORDS[0] and [1]
Keywords == {KT_TELECOP, "S-1"}

----------------------------------------------------------------------------
(* analyze_risk *)

AnyIn(words, s) == \E i \in DOMAIN words : Contains(words[i], s)

title_norm(title) == Replace(title, " ")

analyze_risk_AmberFirst(title) ==
    IF AnyIn(RISK_KEYWORDS.AMBER, title_norm(title)) THEN "AMBER"
    ELSE IF AnyIn(RISK_KEYWORDS.RED, title_norm(title)) THEN "RED"
    ELSE "GREEN"

analyze_risk_RedOnly(title) ==
    IF AnyIn(RISK_KEYWORDS.RED, title_norm(title)) THEN "RED" ELSE "GREEN"

analyze_risk(title) ==
    IF AnyIn(RISK_KEYWORDS.RED, title_norm(title)) THEN "RED"
    ELSE IF AnyIn(RISK_KEYWORDS.AMBER, title_norm(title)) THEN "AMBER"
    ELSE "GREEN"

----------------------------------------------------------------------------
(* The feed *)

\* "해킹 사고 발생": a RED word and an AMBER word
TITLE_RED == <<"hae", "king", " ", "sa", "go">>

\* "화재 사고": AMBER words only
TITLE_AMBER == <<"hwa", "jae", " ", "sa", "go">>

\* "신제품": none of the configured words
TITLE_GREEN == <<"sin", "je", "pum">>

\* a published value that "%a, %d %b %Y %H:%M:%S %Z" parses (core_functions.py:742)
PUBLISHED_RFC822 == "Mon, 06 Jan 2025 10:00:00 GMT"

\* datetime.now().strftime("%Y-%m-%d") of the run
TODAY == "2026-11-03"

\* the attributes crawl_news reads of an entry (core_functions.py:57-60)
EntryFields == {"title", "link", "published", "description"}

\* the entries a feed is made of; the last one has no published attribute
Entries ==
    { [title |-> TITLE_RED,   link |-> "u1", published |-> PUBLISHED_RFC822, description |-> "d"],
      [title |-> TITLE_AMBER, link |-> "u2", published |-> "yesterday",      description |-> "d"],
      [title |-> TITLE_GREEN, link |-> "u3", published |-> PUBLISHED_RFC822, description |-> "d"],
      [title |-> TITLE_GREEN, link |-> "u4", description |-> "d"] }

\* what feedparser.parse(url) does: it raises, or it gives a feed with entries
FeedOutcomes ==
    {[raised |-> TRUE, entries |-> <<>>]}
        \cup {[raised |-> FALSE, entries |-> es] : es \in SeqsUpTo(Entries, MaxFeedLen)}

\* no feed at hand: before the first fetch and between two keywords
NoFeed == [raised |-> FALSE, entries |-> <<>>]

----------------------------------------------------------------------------
(* crawl_news *)

news_item(entry) ==
    [title     |-> entry.title,
     link      |-> entry.link,
     published |-> entry.published,
     summary   |-> entry.description]

crawl_news_NoLimit(f) ==
    IF f.raised \/ \E i \in DOMAIN f.entries : ~(EntryFields \subseteq DOMAIN f.entries[i])
    THEN <<>>
    ELSE [i \in DOMAIN f.entries |-> news_item(f.entries[i])]

\* the entries before the first one that lacks an attribute
WellFormedPrefix(es) ==
    LET bad == {i \in DOMAIN es : ~(EntryFields \subseteq DOMAIN es[i])} IN
    IF bad = {} THEN es ELSE SubSeq(es, 1, (CHOOSE i \in bad : \A j \in bad : i <= j) - 1)

crawl_news_KeepsPartial(f) ==
    LET head == WellFormedPrefix(Take(f.entries, MAX_NEWS_ENTRIES)) IN
    IF f.raised THEN <<>> ELSE [i \in DOMAIN head |-> news_item(head[i])]

\* the value crawl_news returns when feedparser.parse(url) did f: an exception
\* of the parse, or of reading an attribute an entry lacks, gives []
crawl_news(f) ==
    LET head == Take(f.entries, MAX_NEWS_ENTRIES) IN
    IF f.raised \/ \E i \in DOMAIN head : ~(EntryFields \subseteq DOMAIN head[i])
    THEN <<>>
    ELSE [i \in DOMAIN head |-> news_item(head[i])]

----------------------------------------------------------------------------
(* summarize_news *)

\* "뉴스 없음" (core_functions.py:70)
NO_NEWS == "no news"

\* "AI 요약 실패 (API Key 없음)" (core_functions.py:75)
NO_API_KEY == "AI summary failed (no API key)"

\* "AI 요약 중 오류 발생" (core_functions.py:95)
SUMMARY_ERROR == "error during AI summary"

\* response.choices[0].message.content.strip()
DIGEST == "digest"

\* what client.chat.completions.create does
BackendOutcomes == {"ok", "timeout", "auth", "quota"}

titles_of(items) == [i \in DOMAIN items |-> items[i].title]

\* a variant of the prompt that lists the titles of all items
prompt_titles_All(items) == titles_of(items)

\* core_functions.py:80, the titles of news_items[:10] joined into the prompt
prompt_titles(items) == titles_of(Take(items, SUMMARY_TITLES))

\* summarize_news reaches client.chat.completions.create
calls_backend(items, key) == items # <<>> /\ key

summarize_news_ErrorText(items, key, outcome) ==
    IF items = <<>> THEN NO_NEWS
    ELSE IF ~key THEN NO_API_KEY
    ELSE IF outcome = "ok" THEN DIGEST
    ELSE outcome

summarize_news_NoEmptyCase(items, key, outcome) ==
    IF ~key THEN NO_API_KEY
    ELSE IF outcome = "ok" THEN DIGEST
    ELSE SUMMARY_ERROR

\* the value summarize_news returns, outcome being what the backend call does
\* when it is reached
summarize_news(items, key, outcome) ==
    IF items = <<>> THEN NO_NEWS
    ELSE IF ~key THEN NO_API_KEY
    ELSE IF outcome = "ok" THEN DIGEST
    ELSE SUMMARY_ERROR

----------------------------------------------------------------------------
(* dict and record helpers of execute *)

\* a variant of the assignment that puts a new key first
dict_set_Front(m, k, v) ==
    IF \E i \in DOMAIN m : m[i].keyword = k
    THEN [i \in DOMAIN m |-> IF m[i].keyword = k THEN [keyword |-> k, summary |-> v] ELSE m[i]]
    ELSE <<[keyword |-> k, summary |-> v]>> \o m

\* summary_map[keyword] = summary on an insertion-ordered dict
dict_set(m, k, v) ==
    IF \E i \in DOMAIN m : m[i].keyword = k
    THEN [i \in DOMAIN m |-> IF m[i].keyword = k THEN [keyword |-> k, summary |-> v] ELSE m[i]]
    ELSE Append(m, [keyword |-> k, summary |-> v])

\* core_functions.py:741-746
date_fmt(published) == IF published = PUBLISHED_RFC822 THEN "2025-01-06" ELSE TODAY

excluded_RedOnly(keyword, r) == keyword = KT_TELECOP /\ r = "RED"

\* the exclusion rule (core_functions.py:736)
excluded(keyword, r) == keyword = KT_TELECOP /\ r \in {"RED", "AMBER"}

\* a variant of the record that is labelled GREEN whatever the classifier said
record_Green(keyword, item, r) ==
    [keyword |-> keyword,
     title   |-> item.title,
     link    |-> item.link,
     date    |-> date_fmt(item.published),
     risk    |-> "GREEN"]

record(keyword, item, r) ==
    [keyword |-> keyword,
     title   |-> item.title,
     link    |-> item.link,
     date    |-> date_fmt(item.published),
     risk    |-> r]

----------------------------------------------------------------------------
(* The keyword file *)

NoDuplicates(s) == \A i, j \in DOMAIN s : i # j => s[i] # s[j]

\* the keyword file: absent, not decodable as JSON, or an array of distinct keywords
Stores ==
    {[state |-> "missing", data |-> <<>>], [state |-> "corrupt", data |-> <<>>]}
        \cup {[state |-> "ok", data |-> d] :
                d \in {k \in SeqsUpTo(Keywords, Cardinality(Keywords)) : NoDuplicates(k)}}

\* core_functions.load_keywords (it shadows the one imported from data_manager)
load_keywords(file) == IF file.state = "ok" THEN file.data ELSE <<>>

----------------------------------------------------------------------------
(* execute *)

\* an external call: what was called, for which keyword, with which titles in the
\* prompt, and how it ended
call(op, keyword, titles, result) ==
    [op |-> op, keyword |-> keyword, titles |-> titles, result |-> result]

\* SMTP_USER and SMTP_PASSWORD not read yet
NoEnv == [user |-> FALSE, password |-> FALSE]

\* no App handler has run
NoEvent ==
    [op |-> "none", input |-> <<>>, index |-> 0,
     before |-> [state |-> "missing", data |-> <<>>], data |-> <<>>, result |-> "none"]

\* execute is called by start_application in non-interactive mode: no window,
\* no exit yet
AppUnused ==
    /\ revision = "config.py"
    /\ github_actions = TRUE
    /\ exit_status = -1
    /\ listbox = <<>>
    /\ dialog = "none"
    /\ event = NoEvent
    /\ ops = 0

\* make_ppt is not running
PptUnused == prs = <<>> /\ ppt_file = <<>>

Init ==
    /\ pc = "idle"
    /\ store \in Stores
    /\ api_key \in BOOLEAN
    /\ keywords = <<>>
    /\ ki = 1
    /\ news_items = <<>>
    /\ ii = 1
    /\ risk = "none"
    /\ all_news_data = <<>>
    /\ summary_map = <<>>
    /\ feed = NoFeed
    /\ crawled = <<>>
    /\ calls = <<>>
    /\ index_html = <<>>
    /\ pdf_path = "none"
    /\ smtp_env = NoEnv
    /\ now = 1
    /\ AppUnused
    /\ PptUnused

ExecuteLoad_NoEmptyCheck ==
    /\ pc = "idle"
    /\ keywords' = load_keywords(store)
    /\ pc' = IF keywords' = <<>> THEN "dashboard" ELSE "crawl"
    /\ UNCHANGED <<store, api_key, ki, news_items, ii, risk, all_news_data, summary_map,
                   feed, crawled, calls, index_html, pdf_path>>
    /\ UNCHANGED <<smtp_env, app_vars, ppt_vars, now>>

\* core_functions.py:719-725
ExecuteLoad ==
    /\ pc = "idle"
    /\ keywords' = load_keywords(store)
    /\ pc' = IF keywords' = <<>> THEN "done" ELSE "crawl"
    /\ UNCHANGED <<store, api_key, ki, news_items, ii, risk, all_news_data, summary_map,
                   feed, crawled, calls, index_html, pdf_path>>
    /\ UNCHANGED <<smtp_env, app_vars, ppt_vars, now>>

\* core_functions.py:727-729, news_items = crawl_news(keyword)
ExecuteCrawl ==
    /\ pc = "crawl"
    /\ \E f \in FeedOutcomes :
        /\ feed' = f
        /\ news_items' = crawl_news(f)
        /\ calls' = Append(calls, call("feedparser.parse", keywords[ki], <<>>,
                                    IF f.raised THEN "raised" ELSE "ok"))
    /\ crawled' = Append(crawled, news_items')
    /\ ii' = 1
    /\ pc' = "items"
    /\ UNCHANGED <<store, api_key, keywords, ki, risk, all_news_data, summary_map,
                   index_html, pdf_path>>
    /\ UNCHANGED <<smtp_env, app_vars, ppt_vars, now>>

\* core_functions.py:732-754, one pass of `for item in news_items`
ExecuteItem ==
    /\ pc = "items"
    /\ ii <= Len(news_items)
    /\ risk' = analyze_risk(news_items[ii].title)
    /\ all_news_data' =
          IF excluded(keywords[ki], risk')
          THEN all_news_data
          ELSE Append(all_news_data, record(keywords[ki], news_items[ii], risk'))
    /\ ii' = ii + 1
    /\ UNCHANGED <<pc, store, api_key, keywords, ki, news_items, summary_map, feed,
                   crawled, calls, index_html, pdf_path>>
    /\ UNCHANGED <<smtp_env, app_vars, ppt_vars, now>>

\* a variant of the iteration that starts over from the first keyword
next_position_Restart(i) == 1

\* core_functions.py:727, `for keyword in keywords` moves to the next position
next_position(i) == i + 1

\* a variant of the loop exit that lets the summary start at any item
items_done_Early(items, i) == TRUE

\* core_functions.py:729, `for item in news_items` is exhausted: i is the
\* position of the next item
items_done(items, i) == i > Len(items)

\* core_functions.py:756-759, after the last item of the keyword
ExecuteSummarize ==
    /\ pc = "items"
    /\ items_done(news_items, ii)
    /\ \E outcome \in BackendOutcomes :
        /\ summary_map' =
              dict_set(summary_map, keywords[ki], summarize_news(news_items, api_key, outcome))
        /\ calls' =
              IF calls_backend(news_items, api_key)
              THEN Append(calls, call("chat.completions.create", keywords[ki],
                                      prompt_titles(news_items), outcome))
              ELSE calls
    /\ ki' = next_position(ki)
    /\ feed' = NoFeed
    /\ pc' = IF ki' > Len(keywords) THEN "dashboard" ELSE "crawl"
    /\ UNCHANGED <<store, api_key, keywords, news_items, ii, risk, all_news_data,
                   crawled, index_html, pdf_path>>
    /\ UNCHANGED <<smtp_env, app_vars, ppt_vars, now>>

\* json.dumps of one record: its keys in the order execute inserted them
\* (core_functions.py:748-754), each with its value
json_object(r) ==
    << <<"keyword", r.keyword>>, <<"title", r.title>>, <<"link", r.link>>,
       <<"date", r.date>>, <<"risk", r.risk>> >>

\* core_functions.py:156, json.dumps(news_data, ensure_ascii=False)
json_dumps(news_data) == [i \in DOMAIN news_data |-> json_object(news_data[i])]

\* core_functions.py:158-160, one line per entry of summary_map
summary_html(m) == [i \in DOMAIN m |-> <<m[i].keyword, m[i].summary>>]

\* a variant of the page that writes the generation time into each record of
\* rawData
generate_dashboard_Stamped(news_data, m, t) ==
    [rawData      |-> [i \in DOMAIN news_data |->
                          Append(json_object(news_data[i]), <<"generated", t>>)],
     summary      |-> summary_html(m),
     last_updated |-> t]

\* the page generate_dashboard writes at time t: `const rawData = {json_data};`
\* (core_functions.py:421), the summary lines, and datetime.now() under
\* "Last Updated:" (336)
generate_dashboard(news_data, m, t) ==
    [rawData      |-> json_dumps(news_data),
     summary      |-> summary_html(m),
     last_updated |-> t]

\* core_functions.py:762, generate_dashboard(all_news_data, summary_map); an
\* exception of writing index.html leaves execute
ExecuteDashboard ==
    /\ pc = "dashboard"
    /\ \E written \in BOOLEAN :
        /\ calls' = Append(calls, call("generate_dashboard", "", <<>>,
                                    IF written THEN "ok" ELSE "raised"))
        /\ IF written
           THEN /\ index_html' = Append(index_html,
                                        generate_dashboard(all_news_data, summary_map, now))
                /\ pc' = "pdf"
           ELSE /\ index_html' = index_html
                /\ pc' = "aborted"
    /\ UNCHANGED <<store, api_key, keywords, ki, news_items, ii, risk, all_news_data,
                   summary_map, feed, crawled, pdf_path>>
    /\ UNCHANGED <<smtp_env, app_vars, ppt_vars, now>>

\* core_functions.py:764-791, the headless render of index.html to PDF
ExecutePdf ==
    /\ pc = "pdf"
    /\ \E rendered \in BOOLEAN :
        /\ calls' = Append(calls, call("page.pdf", "", <<>>,
                                    IF rendered THEN "ok" ELSE "raised"))
        /\ pdf_path' = IF rendered THEN "Security_Report.pdf" ELSE "none"
    /\ pc' = "mail"
    /\ UNCHANGED <<store, api_key, keywords, ki, news_items, ii, risk, all_news_data,
                   summary_map, feed, crawled, index_html>>
    /\ UNCHANGED <<smtp_env, app_vars, ppt_vars, now>>

\* a variant of the condition that sends the mail whatever the render did
mail_due_Always(path) == TRUE

\* core_functions.py:794, `if pdf_path and os.path.exists(pdf_path)`: pdf_path is
\* None after a failed render (791)
mail_due(path) == path # "none"

\* a variant of the guard of send_email that returns early only with both
\* credentials missing
send_email_skips_BothMissing(env) == ~env.user /\ ~env.password

\* core_functions.py:102, `if not smtp_user or not smtp_password`
send_email_skips(env) == ~env.user \/ ~env.password

\* core_functions.py:794-797 and send_email (97-141): called only with a PDF on
\* disk; it reads the two credentials and returns early if either is missing
\* (102-104); otherwise the SMTP session is opened and its failure is caught
ExecuteMail ==
    /\ pc = "mail"
    /\ \E user \in BOOLEAN, password \in BOOLEAN, sent \in {"ok", "raised"} :
        IF mail_due(pdf_path)
        THEN /\ smtp_env' = [user |-> user, password |-> password]
             /\ calls' = IF send_email_skips(smtp_env')
                          THEN Append(calls, call("send_email", "", <<>>, "ok"))
                          ELSE calls \o <<call("send_email", "", <<>>, "ok"),
                                          call("smtplib.SMTP", "", <<>>, sent)>>
        ELSE /\ smtp_env' = smtp_env
             /\ calls' = calls
    /\ pc' = "done"
    /\ UNCHANGED <<store, api_key, keywords, ki, news_items, ii, risk, all_news_data,
                   summary_map, feed, crawled, index_html, pdf_path>>
    /\ UNCHANGED <<app_vars, ppt_vars, now>>

Next ==
    \/ ExecuteLoad
    \/ ExecuteCrawl
    \/ ExecuteItem
    \/ ExecuteSummarize
    \/ ExecuteDashboard
    \/ ExecutePdf
    \/ ExecuteMail

Spec == Init /\ [][Next]_vars

\* execute is one thread that runs on while it has a next statement: every
\* external call returns or raises
SpecLive == Init /\ [][Next]_vars /\ WF_vars(Next)

----------------------------------------------------------------------------
(* The classifier on every short title: execute stands at the item loop with *)
(* one collected item, whose title is drawn from all titles over TitleChars. *)

\* the characters of a drawn title: those of a RED word (jae nan), of two AMBER
\* words (hwa jae, sa go), U+0020, U+0009 and a character of no word
TitleChars == {"jae", "nan", "hwa", "sa", "go", " ", "\t", "ga"}

Titles == SeqsUpTo(TitleChars, MaxTitleLen)

RiskInit ==
    /\ pc = "items"
    /\ \E k \in Keywords :
        /\ store = [state |-> "ok", data |-> <<k>>]
        /\ keywords = <<k>>
        /\ calls = <<call("feedparser.parse", k, <<>>, "ok")>>
    /\ api_key \in BOOLEAN
    /\ ki = 1
    /\ \E t \in Titles :
        feed = [raised  |-> FALSE,
                entries |-> <<[title |-> t, link |-> "u1", published |-> PUBLISHED_RFC822,
                               description |-> "d"]>>]
    /\ news_items = crawl_news(feed)
    /\ ii = 1
    /\ risk = "none"
    /\ all_news_data = <<>>
    /\ summary_map = <<>>
    /\ crawled = <<news_items>>
    /\ index_html = <<>>
    /\ pdf_path = "none"
    /\ smtp_env = NoEnv
    /\ now = 1
    /\ AppUnused
    /\ PptUnused

RiskNext == ExecuteItem

SpecRisk == RiskInit /\ [][RiskNext]_vars

-----------------------------------------------------------------------------
(* the keyword file: data_manager.py *)

\* config.py:179; the entries after the first two are "Shieldus", "boan sago"
\* (security accident) and "anjeon sago" (safety accident)
INITIAL_KEYWORDS == <<KT_TELECOP, "S-1", "Shieldus", "boan sago", "anjeon sago">>

\* the path data_manager reads and writes
KEYWORD_FILE == "keywords.json"

\* the path core_functions.load_keywords reads: the one keyword persistence file
DATA_FILE == KEYWORD_FILE

\* the tokens of a JSON text
Tok(t, s) == [t |-> t, s |-> s]

RECURSIVE json_items(_)
\* the elements of a list as json.dump(..., indent=2) writes them: each on its
\* own line, a comma after all but the last
json_items(data) ==
    IF data = <<>> THEN <<>>
    ELSE <<Tok("ws", ""), Tok("str", Head(data))>>
            \o (IF Tail(data) = <<>> THEN <<Tok("ws", "")>> ELSE <<Tok(",", "")>>)
            \o json_items(Tail(data))

\* data_manager.py:44 and :18, json.dump of a list of strings
json_dump(data) == <<Tok("[", "")>> \o json_items(data) \o <<Tok("]", "")>>

\* json.load of a text holding a list of strings: whitespace is skipped, the
\* strings and the commas alternate between the brackets; anything else is a
\* JSONDecodeError
json_load(text) ==
    LET t == SelectSeq(text, LAMBDA x : x.t # "ws")
        n == Len(t)
        inner == SubSeq(t, 2, n - 1)
        wellformed ==
            /\ n >= 2
            /\ t[1].t = "[" /\ t[n].t = "]"
            /\ \/ inner = <<>>
               \/ /\ Len(inner) % 2 = 1
                  /\ \A i \in DOMAIN inner :
                        inner[i].t = IF i % 2 = 1 THEN "str" ELSE ","
    IN  IF wellformed
        THEN [ok |-> TRUE,
              value |-> [i \in 1..((Len(inner) + 1) \div 2) |-> inner[2 * i - 1].s]]
        ELSE [ok |-> FALSE, value |-> <<>>]

\* the file after open(KEYWORD_FILE, "w") and json.dump(data): a file that
\* json.load decodes to what the text written holds
written(data) == [state |-> "ok", data |-> json_load(json_dump(data)).value]

\* the file after open(KEYWORD_FILE, "w") truncated it and the write failed
truncated == [state |-> "corrupt", data |-> <<>>]

\* a variant of the reader that returns the default keywords in reverse
data_manager_load_keywords_Reversed(file) ==
    IF file.state = "ok"
    THEN [i \in DOMAIN file.data |-> file.data[Len(file.data) + 1 - i]]
    ELSE INITIAL_KEYWORDS

\* data_manager.py:25-38: the decoded list, the default keywords for a missing
\* or undecodable file
data_manager_load_keywords(file) ==
    IF file.state = "ok" THEN file.data ELSE INITIAL_KEYWORDS

\* the whitespace str.strip removes, as far as inputs hold it
str_whitespace == {" ", "\t"}

RECURSIVE lstrip(_)
lstrip(v) == IF v # <<>> /\ Head(v) \in str_whitespace THEN lstrip(Tail(v)) ELSE v

RECURSIVE rstrip(_)
rstrip(v) ==
    IF v # <<>> /\ v[Len(v)] \in str_whitespace THEN rstrip(SubSeq(v, 1, Len(v) - 1)) ELSE v

\* str.strip on a text given as a sequence of pieces, each a whitespace
\* character or a run of other characters
strip(v) == rstrip(lstrip(v))

\* the words typed into the dialogs
Words == Keywords \cup {"ADT-caps"}

\* what askstring returns: None or "" (both <<>>), blanks, a word, a word with
\* blanks around it
Inputs ==
    {<<>>, <<" ">>} \cup {<<w>> : w \in Words} \cup {<<" ", w, "\t">> : w \in Words}

\* the keyword a stripped input of one run is
keyword_of(v) == v[1]

\* `k in data`
In(k, data) == \E i \in DOMAIN data : data[i] = k

\* data.pop(idx) with idx counted from 1
pop(data, idx) == SubSeq(data, 1, idx - 1) \o SubSeq(data, idx + 1, Len(data))

\* the handler op ran with the text typed and the row selected (0 for none),
\* on the file `before`; result is "saved" if it wrote the list `data` to the
\* file, "raised" if it ended by an exception, "ok" otherwise
handler(op, input, index, before, data, result) ==
    [op |-> op, input |-> input, index |-> index, before |-> before,
     data |-> data, result |-> result]

-----------------------------------------------------------------------------
(* the keyword window: App in main.py and in its earlier copy in config.py *)

Revisions == {"main.py", "config.py"}

\* the handlers run from one start of the window
MaxOps == 2

\* a variant of the seeding that writes the default keywords over any file
setup_file_Overwrites(file) == written(INITIAL_KEYWORDS)

\* data_manager.py:16-18: the file is written only if it does not exist
setup_file(file) == IF file.state = "missing" THEN written(INITIAL_KEYWORDS) ELSE file

\* data_manager.py:13-23, called when the entry script is loaded (main.py:14,
\* config.py:14): the file is created with the default keywords only if it
\* does not exist; an exception is logged and raised again, which ends the
\* process
SetupEnvironment ==
    /\ pc = "setup"
    /\ \E raised \in BOOLEAN, partial \in BOOLEAN :
        IF ~raised
        THEN /\ store' = setup_file(store)
             /\ event' = IF store.state = "missing"
                          THEN handler("setup_environment", <<>>, 0, store,
                                       INITIAL_KEYWORDS, "saved")
                          ELSE handler("setup_environment", <<>>, 0, store, <<>>, "ok")
             /\ pc' = "import"
             /\ exit_status' = exit_status
        ELSE /\ store' = IF store.state = "missing" /\ partial THEN truncated ELSE store
             /\ event' = handler("setup_environment", <<>>, 0, store, <<>>, "raised")
             /\ pc' = "exited"
             /\ exit_status' = 1
    /\ UNCHANGED <<api_key, keywords, ki, news_items, ii, risk, all_news_data, summary_map,
                   feed, crawled, calls, index_html, pdf_path, smtp_env>>
    /\ UNCHANGED <<revision, github_actions, listbox, dialog, ops, ppt_vars, now>>

\* main.py:17-26, config.py:17-21: any exception raised while core_functions is
\* loaded (a missing dependency, a name it does not define: main.py asks it for
\* client) ends the process with status 1; otherwise start_application runs
\* execute in non-interactive mode and opens the window in the other
ImportModules ==
    /\ pc = "import"
    /\ \E loaded \in BOOLEAN :
        IF loaded
        THEN /\ pc' = IF github_actions THEN "idle" ELSE "app"
             /\ exit_status' = exit_status
        ELSE /\ pc' = "exited"
             /\ exit_status' = 1
    /\ UNCHANGED <<store, api_key, keywords, ki, news_items, ii, risk, all_news_data,
                   summary_map, feed, crawled, calls, index_html, pdf_path, smtp_env>>
    /\ UNCHANGED <<revision, github_actions, listbox, dialog, event, ops, ppt_vars, now>>

\* App.__init__ (main.py:53-75) ends its list setup with self.refresh()
AppInit ==
    /\ pc = "app"
    /\ listbox' = data_manager_load_keywords(store)
    /\ pc' = "idle"
    /\ UNCHANGED <<store, api_key, keywords, ki, news_items, ii, risk, all_news_data,
                   summary_map, feed, crawled, calls, index_html, pdf_path, smtp_env>>
    /\ UNCHANGED <<revision, github_actions, exit_status, dialog, event, ops, ppt_vars, now>>

\* save_keywords(data); self.refresh(): data_manager.py:40-48 and App.refresh.
\* A failing write is raised again by save_keywords and leaves the handler
\* before refresh, with the file truncated by open(..., "w")
save_and_refresh(data, op, input, index) ==
    \E saved \in BOOLEAN :
        /\ store' = IF saved THEN written(data) ELSE truncated
        /\ listbox' = IF saved THEN data_manager_load_keywords(store') ELSE listbox
        /\ dialog' = "none"
        /\ event' = handler(op, input, index, store, data, IF saved THEN "saved" ELSE "raised")

\* the handler returns without writing, after showing the messagebox shown
\* ("none" for none)
returns(op, input, index, shown) ==
    /\ store' = store
    /\ listbox' = listbox
    /\ dialog' = shown
    /\ event' = handler(op, input, index, store, <<>>, "ok")

\* the handler ends by an IndexError: the row selected is not in the list loaded
raises(op, input, index) ==
    /\ store' = store
    /\ listbox' = listbox
    /\ dialog' = "none"
    /\ event' = handler(op, input, index, store, <<>>, "raised")

\* the warning of main.py, which its earlier copy does not show
warning(shown) == IF revision = "main.py" THEN shown ELSE "none"

\* App.add: main.py:103-112, config.py:91-98
Add ==
    /\ pc = "idle"
    /\ ops < MaxOps
    /\ ops' = ops + 1
    /\ \E v \in Inputs :
        LET data == data_manager_load_keywords(store)
            s == strip(v)
        IN  IF s = <<>>
            THEN returns("add", v, 0, "none")
            ELSE IF ~In(keyword_of(s), data)
                 THEN save_and_refresh(Append(data, keyword_of(s)), "add", v, 0)
                 ELSE returns("add", v, 0, warning("duplicate"))
    /\ UNCHANGED <<pc, api_key, keywords, ki, news_items, ii, risk, all_news_data,
                   summary_map, feed, crawled, calls, index_html, pdf_path, smtp_env>>
    /\ UNCHANGED <<revision, github_actions, exit_status, ppt_vars, now>>

\* App.edit of config.py:106-109, for a non-blank input
edit_config(data, sel, new) ==
    save_and_refresh([data EXCEPT ![sel] = keyword_of(strip(new))], "edit", new, sel)

\* App.edit of main.py:123-130, for a non-blank input
edit_main(data, sel, new) ==
    LET new_keyword == keyword_of(strip(new))
    IN  IF new_keyword # data[sel]
        THEN IF In(new_keyword, data)
             THEN returns("edit", new, sel, "duplicate")
             ELSE save_and_refresh([data EXCEPT ![sel] = new_keyword], "edit", new, sel)
        ELSE returns("edit", new, sel, "none")

\* App.edit: main.py:114-130, config.py:100-109; sel is the row selected,
\* 0 for none
Edit ==
    /\ pc = "idle"
    /\ ops < MaxOps
    /\ ops' = ops + 1
    /\ \E sel \in 0..Len(listbox), new \in Inputs :
        LET data == data_manager_load_keywords(store)
        IN  IF sel = 0
            THEN returns("edit", <<>>, 0, warning("select"))
            ELSE IF sel > Len(data)
                 THEN raises("edit", <<>>, sel)
                 ELSE IF strip(new) = <<>>
                      THEN returns("edit", new, sel, "none")
                      ELSE IF revision = "main.py"
                           THEN edit_main(data, sel, new)
                           ELSE edit_config(data, sel, new)
    /\ UNCHANGED <<pc, api_key, keywords, ki, news_items, ii, risk, all_news_data,
                   summary_map, feed, crawled, calls, index_html, pdf_path, smtp_env>>
    /\ UNCHANGED <<revision, github_actions, exit_status, ppt_vars, now>>

\* App.delete: main.py:132-143, config.py:111-118; yes is the answer to askyesno
Delete ==
    /\ pc = "idle"
    /\ ops < MaxOps
    /\ ops' = ops + 1
    /\ \E sel \in 0..Len(listbox), yes \in BOOLEAN :
        LET data == data_manager_load_keywords(store)
        IN  IF sel = 0
            THEN returns("delete", <<>>, 0, warning("select"))
            ELSE IF ~yes
                 THEN returns("delete", <<>>, sel, "none")
                 ELSE IF sel > Len(data)
                      THEN raises("delete", <<>>, sel)
                      ELSE save_and_refresh(pop(data, sel), "delete", <<>>, sel)
    /\ UNCHANGED <<pc, api_key, keywords, ki, news_items, ii, risk, all_news_data,
                   summary_map, feed, crawled, calls, index_html, pdf_path, smtp_env>>
    /\ UNCHANGED <<revision, github_actions, exit_status, ppt_vars, now>>

\* the entry script is loaded with any keyword file, in either revision
StoreInit ==
    /\ pc = "setup"
    /\ store \in Stores
    /\ revision \in Revisions
    /\ github_actions = FALSE
    /\ api_key = FALSE
    /\ keywords = <<>>
    /\ ki = 1
    /\ news_items = <<>>
    /\ ii = 1
    /\ risk = "none"
    /\ all_news_data = <<>>
    /\ summary_map = <<>>
    /\ feed = NoFeed
    /\ crawled = <<>>
    /\ calls = <<>>
    /\ index_html = <<>>
    /\ pdf_path = "none"
    /\ smtp_env = NoEnv
    /\ now = 1
    /\ exit_status = -1
    /\ listbox = <<>>
    /\ dialog = "none"
    /\ event = NoEvent
    /\ ops = 0
    /\ PptUnused

\* the window's handlers, and the start of a run from its button
\* (_execute_wrapper calls execute, whose first step reads the file)
StoreNext ==
    \/ SetupEnvironment
    \/ ImportModules
    \/ AppInit
    \/ Add
    \/ Edit
    \/ Delete
    \/ ExecuteLoad

SpecStore == StoreInit /\ [][StoreNext]_vars

-----------------------------------------------------------------------------
(* generate_dashboard called again on the result of a run *)

\* the latest time of the clock
MaxClock == 2

\* the calls of generate_dashboard on one result
MaxGenerations == 2

\* time passes
Tick ==
    /\ now < MaxClock
    /\ now' = now + 1
    /\ UNCHANGED <<exec_vars, app_vars, ppt_vars>>

\* generate_dashboard(all_news_data, summary_map) called once more with the
\* arguments of core_functions.py:762, overwriting index.html
GenerateAgain ==
    /\ pc \in {"pdf", "mail", "done"}
    /\ index_html # <<>>
    /\ Len(index_html) < MaxGenerations
    /\ index_html' = Append(index_html, generate_dashboard(all_news_data, summary_map, now))
    /\ calls' = Append(calls, call("generate_dashboard", "", <<>>, "ok"))
    /\ UNCHANGED <<pc, store, api_key, keywords, ki, news_items, ii, risk, all_news_data,
                   summary_map, feed, crawled, pdf_path, smtp_env>>
    /\ UNCHANGED <<app_vars, ppt_vars, now>>

\* execute is called on a keyword file of one keyword
DashboardInit ==
    /\ pc = "idle"
    /\ store \in {file \in Stores : file.state = "ok" /\ Len(file.data) = 1}
    /\ api_key \in BOOLEAN
    /\ keywords = <<>>
    /\ ki = 1
    /\ news_items = <<>>
    /\ ii = 1
    /\ risk = "none"
    /\ all_news_data = <<>>
    /\ summary_map = <<>>
    /\ feed = NoFeed
    /\ crawled = <<>>
    /\ calls = <<>>
    /\ index_html = <<>>
    /\ pdf_path = "none"
    /\ smtp_env = NoEnv
    /\ now = 1
    /\ AppUnused
    /\ PptUnused

DashboardNext ==
    \/ Next
    \/ Tick
    \/ GenerateAgain

SpecDashboard == DashboardInit /\ [][DashboardNext]_vars

-----------------------------------------------------------------------------
(* make_ppt: report_generator.py *)

\* config.py:146, the cover's title
PPT_TITLE == "security and safety report"

\* config.py:147-150, the text of the closing slide
PPT_FOOTER == "reporting and response guide text"

\* report_generator.py:127, the closing slide's title
CLOSING_TITLE == "reporting and response guide"

slide(layout, title, content) == [layout |-> layout, title |-> title, content |-> content]

\* report_generator.py:17-57: one slide with the cover design is added last
add_title_slide(slides) == Append(slides, slide("cover", PPT_TITLE, "DATE"))

\* report_generator.py:59-112: one slide with header and body is added last
add_content_slide(slides, title, content) == Append(slides, slide("content", title, content))

\* the summaries make_ppt is given: at most one entry per keyword, each of the
\* texts summarize_news returns
SummaryMaps ==
    {m \in SeqsUpTo([keyword : Keywords,
                     summary : {NO_NEWS, NO_API_KEY, SUMMARY_ERROR, DIGEST}],
                    Cardinality(Keywords)) :
        \A i, j \in DOMAIN m : m[i].keyword = m[j].keyword => i = j}

\* a variant of the loop that takes the entries last to first
items_next_Reversed(m, slides) == m[Len(m) + 1 - Len(slides)]

\* summary_map.items(): the entry the loop of make_ppt takes after the cover
\* and Len(slides) - 1 content slides
items_next(m, slides) == m[Len(slides)]

\* report_generator.py:116-121, prs = Presentation(); add_title_slide(prs); any
\* exception inside make_ppt is logged and not raised again (131-132)
MakePptCover ==
    /\ pc = "make_ppt"
    /\ \E raised \in BOOLEAN :
        IF raised
        THEN prs' = prs /\ pc' = "ppt_returned"
        ELSE prs' = add_title_slide(<<>>) /\ pc' = "ppt_content"
    /\ UNCHANGED <<store, api_key, keywords, ki, news_items, ii, risk, all_news_data,
                   summary_map, feed, crawled, calls, index_html, pdf_path, smtp_env>>
    /\ UNCHANGED <<app_vars, ppt_file, now>>

\* report_generator.py:123-124, one content slide for the next entry
MakePptContent ==
    /\ pc = "ppt_content"
    /\ Len(prs) <= Len(summary_map)
    /\ \E raised \in BOOLEAN :
        IF raised
        THEN prs' = prs /\ pc' = "ppt_returned"
        ELSE /\ prs' = add_content_slide(prs, items_next(summary_map, prs).keyword,
                                         items_next(summary_map, prs).summary)
             /\ pc' = pc
    /\ UNCHANGED <<store, api_key, keywords, ki, news_items, ii, risk, all_news_data,
                   summary_map, feed, crawled, calls, index_html, pdf_path, smtp_env>>
    /\ UNCHANGED <<app_vars, ppt_file, now>>

\* report_generator.py:127, the closing slide after the loop
MakePptClosing ==
    /\ pc = "ppt_content"
    /\ Len(prs) > Len(summary_map)
    /\ \E raised \in BOOLEAN :
        IF raised
        THEN prs' = prs /\ pc' = "ppt_returned"
        ELSE prs' = add_content_slide(prs, CLOSING_TITLE, PPT_FOOTER) /\ pc' = "ppt_save"
    /\ UNCHANGED <<store, api_key, keywords, ki, news_items, ii, risk, all_news_data,
                   summary_map, feed, crawled, calls, index_html, pdf_path, smtp_env>>
    /\ UNCHANGED <<app_vars, ppt_file, now>>

\* report_generator.py:129, prs.save(path)
MakePptSave ==
    /\ pc = "ppt_save"
    /\ \E raised \in BOOLEAN :
        ppt_file' = IF raised THEN ppt_file ELSE prs
    /\ pc' = "ppt_returned"
    /\ UNCHANGED <<store, api_key, keywords, ki, news_items, ii, risk, all_news_data,
                   summary_map, feed, crawled, calls, index_html, pdf_path, smtp_env>>
    /\ UNCHANGED <<app_vars, prs, now>>

\* make_ppt(summary_map, path) is called, no file at path
PptInit ==
    /\ pc = "make_ppt"
    /\ summary_map \in SummaryMaps
    /\ store = [state |-> "missing", data |-> <<>>]
    /\ api_key = FALSE
    /\ keywords = <<>>
    /\ ki = 1
    /\ news_items = <<>>
    /\ ii = 1
    /\ risk = "none"
    /\ all_news_data = <<>>
    /\ feed = NoFeed
    /\ crawled = <<>>
    /\ calls = <<>>
    /\ index_html = <<>>
    /\ pdf_path = "none"
    /\ smtp_env = NoEnv
    /\ now = 1
    /\ AppUnused
    /\ PptUnused

PptNext ==
    \/ MakePptCover
    \/ MakePptContent
    \/ MakePptClosing
    \/ MakePptSave

SpecPpt == PptInit /\ [][PptNext]_vars

-----------------------------------------------------------------------------
(* start_application in non-interactive mode *)

\* a variant of the handler that only logs the exception
exit_code_LogsOnly(raised) == 0

\* the exit status after execute: main.py:161-164 raises the exception again,
\* which ends the interpreter with status 1; config.py:131-134 calls
\* sys.exit(1); a normal return ends the script with status 0
exit_code(raised) == IF raised THEN 1 ELSE 0

\* main.py:156-164, config.py:127-134, after execute() returned or raised
StartApplicationExit ==
    /\ github_actions
    /\ pc \in {"done", "aborted"}
    /\ exit_status' = exit_code(pc = "aborted")
    /\ event' = handler("execute", <<>>, 0, store, <<>>, IF pc = "aborted" THEN "raised" ELSE "ok")
    /\ pc' = "exited"
    /\ UNCHANGED <<store, api_key, keywords, ki, news_items, ii, risk, all_news_data,
                   summary_map, feed, crawled, calls, index_html, pdf_path, smtp_env>>
    /\ UNCHANGED <<revision, github_actions, listbox, dialog, ops, ppt_vars, now>>

\* the keyword files of the non-interactive runs: undecodable, or a list of at
\* most one keyword
CliStores == {file \in Stores : file.state # "missing" /\ Len(file.data) <= 1}

\* the entry script is started with GITHUB_ACTIONS=true, in either revision
CliInit ==
    /\ pc = "setup"
    /\ store \in CliStores
    /\ revision \in Revisions
    /\ github_actions = TRUE
    /\ api_key \in BOOLEAN
    /\ keywords = <<>>
    /\ ki = 1
    /\ news_items = <<>>
    /\ ii = 1
    /\ risk = "none"
    /\ all_news_data = <<>>
    /\ summary_map = <<>>
    /\ feed = NoFeed
    /\ crawled = <<>>
    /\ calls = <<>>
    /\ index_html = <<>>
    /\ pdf_path = "none"
    /\ smtp_env = NoEnv
    /\ now = 1
    /\ exit_status = -1
    /\ listbox = <<>>
    /\ dialog = "none"
    /\ event = NoEvent
    /\ ops = 0
    /\ PptUnused

CliNext ==
    \/ SetupEnvironment
    \/ ImportModules
    \/ Next
    \/ StartApplicationExit

SpecCli == CliInit /\ [][CliNext]_vars

\* the item of SpecRisk has been classified
Classified == pc = "items" /\ Len(news_items) = 1 /\ ii = 2

\* the title analyze_risk was given
GivenTitle == news_items[1].title

\* the title as analyze_risk tests it
Tested == title_norm(GivenTitle)

\* C1: a title that, after analyze_risk's whitespace removal, contains a RED-list
\* word and an AMBER-list word is classified RED, wherever the two words stand.
C1_RedBeforeAmber ==
    (Classified /\ AnyIn(RISK_KEYWORDS.RED, Tested) /\ AnyIn(RISK_KEYWORDS.AMBER, Tested))
        => risk = "RED"

\* "사고 재난": the AMBER word comes first in the title and the result is RED
C1_Witness ==
    Classified /\ GivenTitle = <<"sa", "go", "jae", "nan">> /\ risk = "RED"

\* C2: a title with no RED-list and no AMBER-list word is GREEN, one with an
\* AMBER-list word and no RED-list word is AMBER, and the result is always one
\* of RED, AMBER, GREEN.
C2_DefaultGreen ==
    Classified =>
        /\ risk \in {"RED", "AMBER", "GREEN"}
        /\ (~AnyIn(RISK_KEYWORDS.RED, Tested) /\ ~AnyIn(RISK_KEYWORDS.AMBER, Tested))
              => risk = "GREEN"
        /\ (~AnyIn(RISK_KEYWORDS.RED, Tested) /\ AnyIn(RISK_KEYWORDS.AMBER, Tested))
              => risk = "AMBER"

\* "고 사", the characters of an AMBER word in the other order, is GREEN
C2_Witness ==
    Classified /\ GivenTitle = <<"go", " ", "sa">> /\ risk = "GREEN"

\* the whitespace characters a title can hold in the model
WhitespaceChars == {" ", "\t"}

Unsplit(title) == SelectSeq(title, LAMBDA c : c \notin WhitespaceChars)

\* C3: a trigger word split by any whitespace character still matches: the title
\* gets the label of the title with all its whitespace removed.
C3_AnyWhitespace ==
    Classified => risk = analyze_risk(Unsplit(GivenTitle))

----------------------------------------------------------------------------
(* Claims on a run of execute, checked under Spec *)

\* the iterations of the keyword loop that have ended
Finished == 1..(ki - 1)

\* the records of the output list collected under keyword k
RecordsOf(k) == SelectSeq(all_news_data, LAMBDA r : r.keyword = k)

\* title and link of each element of a sequence of items or records
Heads(s) == [i \in DOMAIN s |-> <<s[i].title, s[i].link>>]

IsGreen(item) == analyze_risk(item.title) = "GREEN"

\* C4: for the suppressed keyword no RED or AMBER item is in the output list and
\* every GREEN item collected for it is; for every other keyword every collected
\* item is in the output list, whatever its risk.
C4_ExclusionFilter ==
    \A i \in Finished :
        LET k == keywords[i] IN
        IF k = KT_TELECOP
        THEN /\ \A j \in DOMAIN RecordsOf(k) : RecordsOf(k)[j].risk = "GREEN"
             /\ Heads(RecordsOf(k)) = Heads(SelectSeq(crawled[i], IsGreen))
        ELSE Heads(RecordsOf(k)) = Heads(crawled[i])

\* the suppressed keyword collected a RED and a GREEN item and only the GREEN one
\* is in the output, while another keyword keeps its RED item
C4_Witness ==
    /\ pc = "done"
    /\ \E i \in Finished :
        /\ keywords[i] = KT_TELECOP
        /\ \E a, b \in DOMAIN crawled[i] :
              /\ analyze_risk(crawled[i][a].title) = "RED"
              /\ IsGreen(crawled[i][b])
        /\ Len(RecordsOf(KT_TELECOP)) = 1
    /\ \E j \in DOMAIN all_news_data :
        all_news_data[j].keyword # KT_TELECOP /\ all_news_data[j].risk = "RED"

\* C5: the result of one collection pass holds no two items with the same
\* (title, link) pair.
C5_NoDuplicateItems ==
    \A i, j \in DOMAIN news_items :
        i # j => <<news_items[i].title, news_items[i].link>>
                    # <<news_items[j].title, news_items[j].link>>

\* the fetch raised, or one of the entries crawl_news reads lacks an attribute
FeedFails(f) ==
    \/ f.raised
    \/ \E i \in 1..MAX_NEWS_ENTRIES :
          i <= Len(f.entries) /\ ~(EntryFields \subseteq DOMAIN f.entries[i])

\* C6: a failing fetch or parse gives an empty result for that keyword, the
\* keyword loop goes on (execute is left with an error only after the last
\* keyword), and what the output holds for each keyword is decided by that
\* keyword's own collection alone.
C6_FailSoft ==
    /\ (pc = "items" /\ FeedFails(feed)) => (news_items = <<>> /\ crawled[ki] = <<>>)
    /\ Len(crawled) = (IF pc = "crawl" THEN ki - 1 ELSE IF pc = "items" THEN ki ELSE Len(keywords))
    /\ pc = "aborted" => ki = Len(keywords) + 1
    /\ \A i \in Finished :
          Heads(RecordsOf(keywords[i]))
             = Heads(SelectSeq(crawled[i], LAMBDA it : keywords[i] # KT_TELECOP \/ IsGreen(it)))

\* the first keyword's feed failed, the second keyword's items are in the output
C6_Witness ==
    /\ pc = "done"
    /\ Len(keywords) = 2
    /\ calls[1].op = "feedparser.parse" /\ calls[1].result = "raised"
    /\ crawled[1] = <<>>
    /\ crawled[2] # <<>>
    /\ RecordsOf(keywords[2]) # <<>>

\* C7: crawl_news returns at most MAX_NEWS_ENTRIES items, the first entries of
\* the feed in the feed's order, and the output list has at most
\* MAX_NEWS_ENTRIES records per stored keyword.
C7_AtMostLimit ==
    /\ Len(news_items) <= MAX_NEWS_ENTRIES
    /\ pc = "items" =>
          \/ news_items = <<>>
          \/ /\ Len(news_items) = (IF Len(feed.entries) < MAX_NEWS_ENTRIES
                                   THEN Len(feed.entries) ELSE MAX_NEWS_ENTRIES)
             /\ \A i \in DOMAIN news_items :
                   /\ news_items[i].title = feed.entries[i].title
                   /\ news_items[i].link = feed.entries[i].link
    /\ Len(all_news_data) <= MAX_NEWS_ENTRIES * Len(keywords)

\* a feed longer than the limit was cut to the limit
C7_Witness ==
    /\ pc = "items"
    /\ Len(feed.entries) > MAX_NEWS_ENTRIES
    /\ Len(news_items) = MAX_NEWS_ENTRIES
    /\ news_items[1].title # news_items[2].title

\* the entry of keyword k in summary_map
SummaryOf(k) == (CHOOSE i \in DOMAIN summary_map : summary_map[i].keyword = k)

HasSummary(k) == \E i \in DOMAIN summary_map : summary_map[i].keyword = k

BackendCalls(k) ==
    {i \in DOMAIN calls : calls[i].op = "chat.completions.create" /\ calls[i].keyword = k}

\* C8: with no items, summarize_news returns the "no news" placeholder and calls
\* no backend, with or without credentials.
C8_NoNewsPlaceholder ==
    \A i \in Finished :
        crawled[i] = <<>> =>
            /\ HasSummary(keywords[i])
            /\ summary_map[SummaryOf(keywords[i])].summary = NO_NEWS
            /\ BackendCalls(keywords[i]) = {}

\* a keyword without items was summarized with the credentials set
C8_Witness ==
    /\ api_key
    /\ 1 \in Finished
    /\ crawled[1] = <<>>
    /\ summary_map[1].summary = NO_NEWS

\* C9 as stated: with items, every failure, missing credentials included, gives
\* the one failure placeholder.
C9_OnePlaceholder ==
    \A i \in Finished :
        (crawled[i] # <<>> /\ HasSummary(keywords[i]))
            => summary_map[SummaryOf(keywords[i])].summary \in {DIGEST, SUMMARY_ERROR}

\* C9 as amended: with items, a failing backend call gives SUMMARY_ERROR whatever
\* the failure, missing credentials give NO_API_KEY without a backend call, a
\* successful call gives its text, and execute is not left before the last
\* keyword.
C9_FailurePlaceholders ==
    /\ \A i \in Finished :
          crawled[i] # <<>> =>
              /\ HasSummary(keywords[i])
              /\ LET s == summary_map[SummaryOf(keywords[i])].summary
                     b == BackendCalls(keywords[i])
                 IN IF api_key
                    THEN /\ Cardinality(b) = 1
                         /\ \A c \in b :
                               s = (IF calls[c].result = "ok" THEN DIGEST ELSE SUMMARY_ERROR)
                    ELSE s = NO_API_KEY /\ b = {}
    /\ pc = "aborted" => ki = Len(keywords) + 1

\* the backend failed for the first keyword and the second keyword was collected
C9_Witness ==
    /\ \E c \in DOMAIN calls :
          /\ calls[c].op = "chat.completions.create"
          /\ calls[c].result = "quota"
          /\ calls[c].keyword = keywords[1]
    /\ summary_map[1].summary = SUMMARY_ERROR
    /\ Len(crawled) = 2

\* C10: with an empty keyword list the run ends at once with an empty result: no
\* fetch, no summarization, no dashboard, no PDF, no mail, no error.
C10_EmptyKeywordsNoOp ==
    (pc # "idle" /\ keywords = <<>>) =>
        /\ pc = "done"
        /\ calls = <<>>
        /\ all_news_data = <<>>
        /\ summary_map = <<>>
        /\ index_html = <<>>
        /\ pdf_path = "none"

\* a run over a stored empty list has ended
C10_Witness ==
    pc = "done" /\ store = [state |-> "ok", data |-> <<>>] /\ keywords = <<>> /\ calls = <<>>

\* the keys of a dict, in insertion order
Keys(m) == [i \in DOMAIN m |-> m[i].keyword]

\* C11: the SummaryMap has exactly one entry per keyword processed, in keyword
\* store order, also for keywords whose collection failed or returned nothing;
\* at the end of the per-keyword loop its keys are the keyword list.
C11_OneEntryPerKeyword ==
    /\ Keys(summary_map) = SubSeq(keywords, 1, ki - 1)
    /\ pc \in {"dashboard", "pdf", "mail", "aborted", "done"} => Keys(summary_map) = keywords

\* the loop ended over two keywords: the fetch of the first raised, the second
\* returned items
C11_Witness ==
    /\ pc = "dashboard"
    /\ Len(keywords) = 2
    /\ calls[1].op = "feedparser.parse" /\ calls[1].result = "raised"
    /\ crawled[1] = <<>>
    /\ crawled[2] # <<>>
    /\ Len(summary_map) = 2

\* the calls of the run so far to the operation op
CallsTo(op) == {i \in 1..Len(calls) : calls[i].op = op}

\* C16: when SMTP_USER or SMTP_PASSWORD is absent, send_email returns without
\* opening an SMTP session and without raising, and the run completes with the
\* dashboard and the PDF produced.
C16_SkipWithoutCredentials ==
    (CallsTo("send_email") # {} /\ (~smtp_env.user \/ ~smtp_env.password))
        => /\ CallsTo("smtplib.SMTP") = {}
           /\ \A i \in CallsTo("send_email") : calls[i].result = "ok"
           /\ pc = "done"
           /\ index_html # <<>>
           /\ pdf_path # "none"

\* send_email was called with the user set and the password missing
C16_Witness ==
    /\ pc = "done"
    /\ CallsTo("send_email") # {}
    /\ smtp_env.user /\ ~smtp_env.password
    /\ CallsTo("smtplib.SMTP") = {}

\* C18: a keyword file that cannot be decoded aborts the run as a fatal error:
\* execute does not go on as if the store were empty, and no export artifact
\* is produced.
C18_CorruptStoreFatal ==
    (store.state = "corrupt" /\ pc # "idle")
        => /\ pc = "aborted"
           /\ index_html = <<>>
           /\ pdf_path = "none"

\* the list the handler that ran last loaded
Loaded == data_manager_load_keywords(event.before)

\* the keyword typed into the dialog of the handler that ran last
Typed == keyword_of(strip(event.input))

\* the add handler ran last, on a non-blank input, and returned
Added == event.op = "add" /\ strip(event.input) # <<>> /\ event.result # "raised"

\* C12: add(k) with the trimmed k already present leaves the store unchanged,
\* in memory and on file, and reports a duplicate; otherwise the trimmed k is
\* appended as the last element and saved, the elements before it as they were.
C12_AddContract ==
    Added =>
        IF In(Typed, Loaded)
        THEN /\ store = event.before
             /\ dialog = "duplicate"
        ELSE /\ store.state = "ok"
             /\ store.data = Append(Loaded, Typed)
             /\ listbox = Append(Loaded, Typed)

\* C13: the persisted keyword list holds no two equal strings and no empty
\* string after any sequence of add, update and remove from a store without
\* duplicates: an update to the value of another entry is rejected.
C13_NoDuplicateKeywords ==
    store.state = "ok"
        => /\ NoDuplicates(store.data)
           /\ \A i \in DOMAIN store.data : store.data[i] # ""

\* C14: after save_keywords(data) returns, load_keywords() returns a list equal
\* to data, and the list shown after an add, update or remove is the list on
\* file.
C14_SaveThenLoad ==
    (event.op \in {"add", "edit", "delete"} /\ event.result = "saved")
        => /\ data_manager_load_keywords(store) = event.data
           /\ listbox = data_manager_load_keywords(store)
           /\ store.state = "ok"

\* an update of the second of three keywords was saved
C14_Witness ==
    /\ event.op = "edit" /\ event.result = "saved" /\ event.index = 2
    /\ Len(event.data) = 3
    /\ event.data # Loaded
    /\ listbox = event.data

\* C15: with no keyword file, setup_environment creates it holding exactly the
\* default keywords, and the run that follows processes exactly those; a file
\* that exists is left as it is.
C15_FirstRunSeeding ==
    (event.op = "setup_environment" /\ event.result # "raised")
        => /\ IF event.before.state = "missing"
              THEN store.state = "ok" /\ store.data = INITIAL_KEYWORDS
              ELSE store = event.before
           /\ (event.before.state = "missing" /\ pc \in {"crawl", "done"})
                => (keywords = INITIAL_KEYWORDS /\ pc = "crawl")

\* a run started on the file that setup_environment created
C15_Witness ==
    /\ event.op = "setup_environment" /\ event.before.state = "missing"
    /\ pc = "crawl"
    /\ keywords = INITIAL_KEYWORDS
    /\ ki = 1


\* execute was called and ended by an exception
ExecuteAborted == event.op = "execute" /\ event.result = "raised"

\* execute was called and returned
ExecuteReturned == event.op = "execute" /\ event.result = "ok"

\* C17: in non-interactive mode the process ends with a non-zero status
\* whenever execute aborts with a fatal failure, and with status zero whenever
\* execute returns normally.
C17_ExitStatus ==
    (github_actions /\ pc = "exited")
        => /\ ExecuteAborted => exit_status > 0
           /\ ExecuteReturned => exit_status = 0
           /\ (\E i \in DOMAIN calls : calls[i].result = "raised" /\ calls[i].op = "generate_dashboard")
                => ExecuteAborted

\* a run of main.py ended after generate_dashboard raised
C17_Witness ==
    /\ github_actions /\ pc = "exited" /\ revision = "main.py"
    /\ ExecuteAborted
    /\ calls[Len(calls)] = call("generate_dashboard", "", <<>>, "raised")
    /\ exit_status = 1

\* C19: generate_dashboard called twice with the same record list and the same
\* SummaryMap embeds the same serialized record list as rawData in both pages,
\* whatever the generation time written elsewhere in the page.
C19_SameDataBlock ==
    \A i, j \in DOMAIN index_html :
        /\ index_html[i].rawData = index_html[j].rawData
        /\ index_html[i].rawData = json_dumps(all_news_data)

\* two pages generated at different times from a result of two records
C19_Witness ==
    /\ Len(index_html) = 2
    /\ index_html[1].last_updated # index_html[2].last_updated
    /\ Len(all_news_data) = 2
    /\ Len(index_html[2].rawData) = 2

\* the slides of a deck with the cover design
Covers(deck) == {i \in DOMAIN deck : deck[i].layout = "cover"}

\* the slides of a deck that are the closing slide
Closings(deck) == {i \in DOMAIN deck : deck[i] = slide("content", CLOSING_TITLE, PPT_FOOTER)}

C20_WitnessEmpty ==
    /\ pc = "ppt_returned"
    /\ summary_map = <<>>
    /\ Len(ppt_file) = 2

\* the PDF render of this run failed
RenderFailed == \E i \in CallsTo("page.pdf") : calls[i].result = "raised"

\* C21: send_email is called only after the PDF render of the same run has
\* succeeded; if the render fails, send_email is never called, the failure is
\* absorbed, and the run goes on to its end with the dashboard file written.
C21_MailAfterExport ==
    /\ \A i \in CallsTo("send_email") :
            \E j \in CallsTo("page.pdf") : j < i /\ calls[j].result = "ok"
    /\ RenderFailed
        => /\ CallsTo("send_email") = {}
           /\ CallsTo("smtplib.SMTP") = {}
           /\ pc \in {"mail", "done"}
           /\ index_html # <<>>

\* a run ended after its PDF render failed
C21_Witness ==
    /\ pc = "done"
    /\ RenderFailed
    /\ pdf_path = "none"
    /\ index_html # <<>>
    /\ all_news_data # <<>>

\* the number of fetches among the first i calls of the run
FetchesUpTo(i) == Cardinality({j \in 1..i : calls[j].op = "feedparser.parse"})

\* the calls of the exporters: dashboard, PDF render, mail
ExporterOps == {"generate_dashboard", "page.pdf", "send_email", "smtplib.SMTP"}

\* the items of a collection that the exclusion filter lets through
Passing(k, items) == SelectSeq(items, LAMBDA item : ~excluded(k, analyze_risk(item.title)))

\* C22: keywords are processed one at a time in store order; for each keyword
\* collection completes before any of its items is classified, and all its
\* items are classified and filtered before its summarization starts; no stage
\* of the next keyword starts before the summarization of this one returned,
\* and no exporter runs before the last summarization returned.
C22_Sequential ==
    /\ Len(crawled) = (IF pc = "items" THEN ki ELSE ki - 1)
    /\ Len(summary_map) = ki - 1
    /\ \A p \in DOMAIN keywords :
            Len(RecordsOf(keywords[p])) =
                IF p < ki THEN Len(Passing(keywords[p], crawled[p]))
                ELSE IF p = ki /\ pc = "items"
                     THEN Len(Passing(keywords[p], Take(crawled[p], ii - 1)))
                     ELSE 0
    /\ \A i \in DOMAIN calls :
            /\ calls[i].op \in {"feedparser.parse", "chat.completions.create"}
                    => calls[i].keyword = keywords[FetchesUpTo(i)]
            /\ calls[i].op = "chat.completions.create"
                    => /\ i > 1 /\ calls[i - 1].op = "feedparser.parse"
                       /\ FetchesUpTo(i) < ki
            /\ calls[i].op \in ExporterOps
                    => /\ FetchesUpTo(i) = Len(keywords)
                       /\ Len(summary_map) = Len(keywords)
                       /\ \A j \in i..Len(calls) : calls[j].op \in ExporterOps

\* the second keyword is in its item loop, its first item classified, after
\* the backend was called for the first keyword
C22_Witness ==
    /\ pc = "items" /\ ki = 2 /\ ii = 2
    /\ Len(news_items) = 2
    /\ Len(calls) = 3
    /\ calls[2].op = "chat.completions.create" /\ calls[2].keyword = keywords[1]
    /\ calls[3].op = "feedparser.parse" /\ calls[3].keyword = keywords[2]

\* the stage of the run: Idle 0, PerKeyword 2 (Loading, 1, is the step that
\* leaves Idle), Aggregated 3, Exporting 4, Done or fatal abort 5
Stage ==
    CASE pc = "idle" -> 0
      [] pc \in {"crawl", "items"} -> 2
      [] pc = "dashboard" -> 3
      [] pc \in {"pdf", "mail"} -> 4
      [] pc \in {"done", "aborted"} -> 5

\* a step goes to the same or a later stage, and to a later keyword position
\* whenever it starts a collection
StepForward ==
    /\ Stage' >= Stage
    /\ ki' >= ki
    /\ Len(crawled') > Len(crawled) => (Len(crawled') = ki' /\ Len(crawled) = ki' - 1)
    /\ (pc = "items" /\ pc' # "items") => ki' = ki + 1
    /\ (Stage = 2 /\ Stage' > 2) => (Stage' = 3 /\ Len(crawled) = Len(keywords))
    /\ (Stage = 3 /\ Stage' > 3) => (Stage' = 4 \/ pc' = "aborted")
    /\ pc = "aborted" => pc' = "aborted"

\* C23: a run goes through Idle, Loading, PerKeyword once per stored keyword,
\* Aggregated, Exporting, Done in this order, never back to an earlier stage
\* and never twice over a keyword position, and eventually reaches Done or a
\* fatal abort.
C23_StateMachine ==
    /\ [][StepForward]_vars
    /\ [](Len(crawled) <= Len(keywords))
    /\ <>(pc \in {"done", "aborted"})

\* a run over two keywords reached Done
C23_Witness ==
    /\ pc = "done"
    /\ Len(keywords) = 2
    /\ Len(crawled) = 2
    /\ index_html # <<>>

\* the positions of the keyword list whose collection holds an item with the
\* title and link of record r
CollectedAt(r) ==
    {p \in DOMAIN crawled :
        \E n \in DOMAIN crawled[p] :
            crawled[p][n].title = r.title /\ crawled[p][n].link = r.link}

\* C24: each record of the output list carries the keyword under which its
\* item was collected and a risk in {RED, AMBER, GREEN} equal to analyze_risk
\* of its own title; two records with the same title carry the same risk.
C24_RecordLabels ==
    /\ \A n \in DOMAIN all_news_data :
            LET r == all_news_data[n] IN
            /\ r.risk \in {"RED", "AMBER", "GREEN"}
            /\ r.risk = analyze_risk(r.title)
            /\ \E p \in CollectedAt(r) : keywords[p] = r.keyword
    /\ \A m, n \in DOMAIN all_news_data :
            all_news_data[m].title = all_news_data[n].title
                => all_news_data[m].risk = all_news_data[n].risk

\* a GREEN record of the suppressed keyword, then two records of another
\* keyword with the same title, both RED
C24_Witness ==
    /\ Len(all_news_data) = 3
    /\ all_news_data[1].keyword = KT_TELECOP /\ all_news_data[1].risk = "GREEN"
    /\ all_news_data[2].keyword # KT_TELECOP
    /\ all_news_data[2].title = all_news_data[3].title
    /\ all_news_data[2].risk = "RED" /\ all_news_data[3].risk = "RED"

\* C25: the summarization backend is called at most once per keyword
\* iteration, with no retry after a failure, and the call carries the titles
\* of at most the first SUMMARY_TITLES collected items of that keyword.
C25_OneBoundedCall ==
    /\ \A p \in DOMAIN keywords : Cardinality(BackendCalls(keywords[p])) <= 1
    /\ Cardinality(CallsTo("chat.completions.create")) <= Len(crawled)
    /\ \A i \in CallsTo("chat.completions.create") :
            LET items == crawled[FetchesUpTo(i)]
                n == IF Len(items) < SUMMARY_TITLES THEN Len(items) ELSE SUMMARY_TITLES
            IN  /\ Len(calls[i].titles) <= SUMMARY_TITLES
                /\ calls[i].titles = [t \in 1..n |-> items[t].title]

\* the backend failed on a keyword with more items than the prompt takes, and
\* the run went on to the next keyword without a second call
C25_Witness ==
    /\ ki = 2 /\ pc = "crawl"
    /\ Len(crawled[1]) > SUMMARY_TITLES
    /\ Len(calls) = 2
    /\ calls[2].op = "chat.completions.create" /\ calls[2].result = "timeout"
    /\ Len(calls[2].titles) = SUMMARY_TITLES

\* C26: for the suppressed keyword the titles handed to the summarizer come
\* only from items that passed the exclusion filter, never from an item
\* classified RED or AMBER.
C26_SummaryAfterFilter ==
    \A i \in CallsTo("chat.completions.create") :
        \A t \in DOMAIN calls[i].titles :
            ~excluded(calls[i].keyword, analyze_risk(calls[i].titles[t]))

============================================================================
